---- MODULE Spec2Model ----
(***************************************************************************)
(* State-machine model of rlog_generator/utils.py: configuration loading   *)
(* (the global Faker generator `fake`), provider-module discovery, the     *)
(* func_<name> resolver, field-value resolution and template rendering.    *)
(*                                                                         *)
(* Python strings whose characters the code inspects (file names, function *)
(* tokens, function strings) are sequences of one-character strings, so    *)
(* that slicing, endswith and split are computed as the code computes them.*)
(* The program is single-threaded: every public function is one action.    *)
(***************************************************************************)
EXTENDS Integers, Sequences, FiniteSets, TLC

VARIABLES
    fake,                \* the module global `fake`: Undefined or a generator
    last_good,           \* ghost: the last yaml file that load_config returned a
                         \* configuration for and that has a non-empty locale
    providers_dir,       \* the file names found in <package>/providers
    sys_modules,         \* sys.modules: imported name -> module
    sys_path,            \* how many times providers_dir was put on sys.path
    executed,            \* ghost: provider file -> number of times its code ran
    provider_functions,  \* the module global registry (name, module) in dict order
    op,                  \* the last public call: its name and input
    outcome,             \* what that call returned or raised
    calls,               \* underlying functions invoked by that call, in order
    resolutions,         \* function tokens given to get_function by that call
    route                \* branch taken by get_random_value in that call

vars == <<fake, last_good, providers_dir, sys_modules, sys_path, executed,
          provider_functions, op, outcome, calls, resolutions, route>>

----------------------------------------------------------------------------
(* Bounds of the model *)

MaxReloads == 1    \* load_provider_modules calls after the one at import
MaxArgs == 2       \* argument tokens after the function token
MaxNamed == 2      \* named replacement fields in a template

----------------------------------------------------------------------------
(* Python string helpers *)

\* s[n:]
DropPrefix(s, n) == SubSeq(s, n + 1, Len(s))

\* s[:-n]
DropSuffix(s, n) == SubSeq(s, 1, Len(s) - n)

\* s.endswith(suf)
EndsWith(s, suf) ==
    /\ Len(s) >= Len(suf)
    /\ SubSeq(s, Len(s) - Len(suf) + 1, Len(s)) = suf

\* s.startswith(pre)
StartsWith(s, pre) ==
    /\ Len(s) >= Len(pre)
    /\ SubSeq(s, 1, Len(pre)) = pre

IsSpace(c) == c \in {" ", "\t"}

\* str.split() with no separator: runs of whitespace separate the tokens,
\* leading and trailing whitespace yields no empty token.
RECURSIVE SplitFrom(_, _, _)
SplitFrom(s, i, cur) ==
    IF i > Len(s)
    THEN IF cur = <<>> THEN <<>> ELSE <<cur>>
    ELSE IF IsSpace(s[i])
         THEN IF cur = <<>>
              THEN SplitFrom(s, i + 1, <<>>)
              ELSE <<cur>> \o SplitFrom(s, i + 1, <<>>)
         ELSE SplitFrom(s, i + 1, Append(cur, s[i]))

Split(s) == SplitFrom(s, 1, <<>>)

\* " ".join(tokens)
RECURSIVE Join(_)
Join(tokens) ==
    IF tokens = <<>> THEN <<>>
    ELSE IF Len(tokens) = 1 THEN tokens[1]
    ELSE tokens[1] \o <<" ">> \o Join(Tail(tokens))

\* All sequences over S of length at most n
SeqsUpTo(S, n) == UNION {[1..k -> S] : k \in 0..n}

\* All orderings of a finite set
Perms(S) == {p \in [1..Cardinality(S) -> S] :
                \A i, j \in 1..Cardinality(S) : i # j => p[i] # p[j]}

Undefined == "undefined"
None == <<"None">>

\* Results of a call: a returned value or a raised exception.  `by` is the
\* function whose code raised it, `msg` the name interpolated into the
\* exception's message (empty when there is none).
Return(v) == [kind |-> "return", val |-> v, err |-> "", by |-> "", msg |-> <<>>]
Raise(e, f, m) == [kind |-> "raise", val |-> None, err |-> e, by |-> f, msg |-> m]

----------------------------------------------------------------------------
(* Names *)

func_prefix == <<"f", "u", "n", "c", "_">>
dot_py == <<".", "p", "y">>

n_timestamp == <<"t", "i", "m", "e", "s", "t", "a", "m", "p">>
n_load_config == <<"l", "o", "a", "d", "_", "c", "o", "n", "f", "i", "g">>
n_log == <<"l", "o", "g">>
n_fake == <<"f", "a", "k", "e">>
n_random == <<"r", "a", "n", "d", "o", "m">>
n_randint == <<"r", "a", "n", "d", "i", "n", "t">>
n_randmac == <<"r", "a", "n", "d", "m", "a", "c">>
n_nope == <<"n", "o", "p", "e">>
n_net == <<"n", "e", "t">>
n_extra == <<"e", "x", "t", "r", "a">>
n_init == <<"_", "_", "i", "n", "i", "t", "_", "_">>
n_readme == <<"R", "E", "A", "D", "M", "E", ".", "m", "d">>

n_os == <<"o", "s">>
n_yaml == <<"y", "a", "m", "l">>

File(name) == name \o dot_py

----------------------------------------------------------------------------
(* load_config *)

\* Locales the Faker constructor accepts; any other locale makes it raise.
FakerLocales == {"en_US", "it_IT"}

\* What a yaml file can be: absent, unparsable, an empty document (which
\* yaml.load turns into None) or a mapping with or without a locale key.
Mappings ==
    {[k \in {"patterns"} |-> "p"]} \cup
    {[k \in {"patterns", "locale"} |-> IF k = "locale" THEN l ELSE "p"] :
        l \in {"", "en_US", "it_IT", "xx_XX"}}

YamlFiles ==
    {[exists |-> FALSE, parses |-> FALSE, null |-> FALSE, map |-> <<>>],
     [exists |-> TRUE, parses |-> FALSE, null |-> FALSE, map |-> <<>>],
     [exists |-> TRUE, parses |-> TRUE, null |-> TRUE, map |-> <<>>]} \cup
    {[exists |-> TRUE, parses |-> TRUE, null |-> FALSE, map |-> m] : m \in Mappings}

\* Python truthiness of a configuration value
Truthy(v) == v # ""

\* Faker(locale): a generator for the locale, or an exception
Faker(locale) ==
    IF locale \in FakerLocales
    THEN Return(locale)
    ELSE Raise("AttributeError", "Faker", <<>>)

\* Mutant of load_config: the generator is configured once and kept
load_config_first_wins(yaml_file, fk) ==
    IF ~yaml_file.exists \/ ~yaml_file.parses
    THEN [fake |-> fk, out |-> Return(None)]
    ELSE IF yaml_file.null
    THEN [fake |-> fk, out |-> Raise("TypeError", "load_config", <<>>)]
    ELSE IF "locale" \in DOMAIN yaml_file.map /\ Truthy(yaml_file.map["locale"])
         THEN IF Faker(yaml_file.map["locale"]).kind = "raise"
              THEN [fake |-> fk, out |-> Faker(yaml_file.map["locale"])]
              ELSE [fake |-> IF fk = Undefined
                             THEN Faker(yaml_file.map["locale"]).val ELSE fk,
                    out |-> Return(<<"config", yaml_file.map>>)]
         ELSE [fake |-> fk, out |-> Return(<<"config", yaml_file.map>>)]

\* load_config(yaml_file) run with the global `fake` = fk:
\* the new value of `fake` and the call's outcome.
load_config(yaml_file, fk) ==
    IF ~yaml_file.exists
    THEN [fake |-> fk, out |-> Return(None)]                  \* FileNotFoundError
    ELSE IF ~yaml_file.parses
    THEN [fake |-> fk, out |-> Return(None)]                  \* yaml.YAMLError
    ELSE IF yaml_file.null
    THEN [fake |-> fk, out |-> Raise("TypeError", "load_config", <<>>)]   \* 'locale' in None
    ELSE LET config == yaml_file.map IN
         IF "locale" \in DOMAIN config /\ Truthy(config["locale"])
         THEN LET f == Faker(config["locale"]) IN
              IF f.kind = "raise"
              THEN [fake |-> fk, out |-> f]
              ELSE [fake |-> f.val, out |-> Return(<<"config", config>>)]
         ELSE [fake |-> fk, out |-> Return(<<"config", config>>)]

----------------------------------------------------------------------------
(* load_provider_modules *)

\* Modules imported by utils.py itself before the providers are loaded
InitialSysModules ==
    [n \in {n_random, n_os, n_yaml} |-> [origin |-> "site", name |-> n]]

\* Directories the providers package can be: provider files, the package
\* initializer, a file that is no Python source, and a provider file named
\* like a module that utils.py has already imported.
ProviderDirs ==
    {{File(n_init), File(n_net), File(n_extra)},
     {n_readme, File(n_net), File(n_random)}}

\* dict[key] = value: an existing key keeps its position
DictSet(d, k, v) ==
    IF \E i \in 1..Len(d) : d[i][1] = k
    THEN [i \in 1..Len(d) |-> IF d[i][1] = k THEN <<k, v>> ELSE d[i]]
    ELSE Append(d, <<k, v>>)

DictKeys(d) == {d[i][1] : i \in 1..Len(d)}
DictGet(d, k) == (CHOOSE i \in 1..Len(d) : d[i][1] = k) 

\* importlib.import_module(module_name): the cached module when the name is
\* in sys.modules, else the file found on sys.path is executed and cached.
import_module(module_name, mods, execd) ==
    IF module_name \in DOMAIN mods
    THEN [module |-> mods[module_name], mods |-> mods, execd |-> execd]
    ELSE LET m == [origin |-> "providers", name |-> module_name]
             f == File(module_name)
         IN [module |-> m,
             mods |-> [n \in DOMAIN mods \cup {module_name} |->
                          IF n = module_name THEN m ELSE mods[n]],
             execd |-> [execd EXCEPT ![f] = @ + 1]]

\* The loop of load_provider_modules over os.listdir's result `listing`
RECURSIVE load_loop(_, _, _, _)
load_loop(listing, provider_modules, mods, execd) ==
    IF listing = <<>>
    THEN [provider_modules |-> provider_modules, mods |-> mods, execd |-> execd]
    ELSE LET filename == Head(listing) IN
         IF EndsWith(filename, dot_py) /\ filename # File(n_init)
         THEN LET module_name == DropSuffix(filename, 3)
                  r == import_module(module_name, mods, execd)
              IN load_loop(Tail(listing),
                           DictSet(provider_modules, module_name, r.module),
                           r.mods, r.execd)
         ELSE load_loop(Tail(listing), provider_modules, mods, execd)

\* load_provider_modules() with os.listdir returning `listing`
load_provider_modules(listing, mods, execd) ==
    load_loop(listing, <<>>, mods, execd)

----------------------------------------------------------------------------
(* Namespaces *)

n_utils == <<"u", "t", "i", "l", "s">>

\* The module object of utils.py, the default `module` of get_function
core == [origin |-> "core", name |-> n_utils]

\* Module-level names of utils.py that the function tokens of this model
\* can reach: two functions and one attribute that is not callable.
CoreNamespace == {n_timestamp, n_load_config, n_log}

\* Functions a provider file defines, with the number of positional
\* parameters each takes (the generator first).
ProviderSource(module_name) ==
    IF module_name = n_net
    THEN [f \in {n_randmac, n_randint, n_timestamp} |->
             IF f = n_randint THEN 3 ELSE 1]
    ELSE IF module_name = n_extra
    THEN [f \in {n_randint} |-> 3]
    ELSE [f \in {n_randmac} |-> 1]              \* providers/random.py

\* Attributes of the standard library module random that the tokens reach
SiteRandom == {n_randint}

\* hasattr(module, name)
hasattr(module, name) ==
    IF module.origin = "core" THEN name \in CoreNamespace
    ELSE IF module.origin = "providers"
    THEN name \in DOMAIN ProviderSource(module.name)
    ELSE module.name = n_random /\ name \in SiteRandom

\* Calls of the underlying function, getattr(module, name)(gen, *args), once
\* `gen` has been evaluated: the outcome, and whether the body of the
\* function was entered (the arguments matched its parameters).

\* The core names: timestamp() has no parameter, load_config(yaml_file) has
\* one and open() does not take a Faker object, log is a Logger.
CoreCall(name, given) ==
    IF name = n_load_config /\ given = 1
    THEN [entered |-> TRUE, out |-> Raise("TypeError", "load_config", <<>>)]
    ELSE [entered |-> FALSE, out |-> Raise("TypeError", "call", name)]

\* A provider function returns a value made from the generator and the
\* argument strings when it is given as many arguments as it has parameters.
ProviderCall(module, name, gen, args) ==
    IF 1 + Len(args) = ProviderSource(module.name)[name]
    THEN [entered |-> TRUE,
          out |-> Return(<<"result", module, name, gen, args>>)]
    ELSE [entered |-> FALSE, out |-> Raise("TypeError", "call", name)]

\* random.randint(a, b) adds 1 to b
SiteCall(name, given) ==
    IF given = 2
    THEN [entered |-> TRUE, out |-> Raise("TypeError", "randint", <<>>)]
    ELSE [entered |-> FALSE, out |-> Raise("TypeError", "call", name)]

Underlying(module, name, gen, args) ==
    IF module.origin = "core" THEN CoreCall(name, 1 + Len(args))
    ELSE IF module.origin = "providers"
    THEN ProviderCall(module, name, gen, args)
    ELSE SiteCall(name, 1 + Len(args))

----------------------------------------------------------------------------
(* get_function and the wrapper it returns *)

\* The closure func_wrapper: it keeps `module` and the stripped function_str
Wrapper(module, name) == <<"func_wrapper", module, name>>

\* Mutant of search_providers: the raise sits inside the loop, so only the
\* first module of the registry is looked at
search_providers_raise_early(registry, i, name) ==
    IF i > Len(registry)
    THEN Raise("ValueError", "get_function", name)
    ELSE IF hasattr(registry[i][2], name)
         THEN Return(Wrapper(registry[i][2], name))
         ELSE Raise("ValueError", "get_function", name)

\* The first module of registry[i..] that has the attribute, as a wrapper
RECURSIVE search_providers(_, _, _)
search_providers(registry, i, name) ==
    IF i > Len(registry)
    THEN Raise("ValueError", "get_function", name)
    ELSE IF hasattr(registry[i][2], name)
         THEN Return(Wrapper(registry[i][2], name))
         ELSE search_providers(registry, i + 1, name)

\* Mutant of get_function: the provider modules are searched before the
\* core namespace
get_function_providers_first(function_str, registry) ==
    IF search_providers(registry, 1,
           DropPrefix(function_str, Len(func_prefix))).kind = "return"
    THEN search_providers(registry, 1, DropPrefix(function_str, Len(func_prefix)))
    ELSE IF hasattr(core, DropPrefix(function_str, Len(func_prefix)))
    THEN Return(Wrapper(core, DropPrefix(function_str, Len(func_prefix))))
    ELSE Raise("ValueError", "get_function",
               DropPrefix(function_str, Len(func_prefix)))

\* Mutant of get_function: a token without the prefix is refused
get_function_checked(function_str, registry) ==
    IF ~StartsWith(function_str, func_prefix)
    THEN Raise("ValueError", "get_function", function_str)
    ELSE IF hasattr(core, DropPrefix(function_str, Len(func_prefix)))
    THEN Return(Wrapper(core, DropPrefix(function_str, Len(func_prefix))))
    ELSE search_providers(registry, 1, DropPrefix(function_str, Len(func_prefix)))

\* get_function(function_str) with the default module
get_function(function_str, registry) ==
    LET name == DropPrefix(function_str, Len(func_prefix)) IN
    IF hasattr(core, name)
    THEN Return(Wrapper(core, name))
    ELSE search_providers(registry, 1, name)

\* func_wrapper(*args) with the global `fake` = fk: the outcome and the
\* calls of underlying functions it made
called(w, args, fk, u) ==
    [out |-> u.out,
     calls |-> <<[module |-> w[2], name |-> w[3], gen |-> fk,
                  args |-> args, entered |-> u.entered]>>]

func_wrapper(w, args, fk) ==
    IF fk = Undefined
    THEN [out |-> Raise("NameError", "func_wrapper", n_fake), calls |-> <<>>]
    ELSE called(w, args, fk, Underlying(w[2], w[3], fk, args))

----------------------------------------------------------------------------
(* exec_function_str, get_random_value *)

\* exec_function_str(function_str): outcome, underlying calls, and the
\* tokens handed to get_function
\* ... after func = get_function(tokens[0])
exec_resolved(tokens, func, fk) ==
    IF func.kind = "raise"
    THEN [out |-> func, calls |-> <<>>, resolutions |-> <<tokens[1]>>]
    ELSE [resolutions |-> <<tokens[1]>>] @@ func_wrapper(func.val, Tail(tokens), fk)

\* ... after tokens = function_str.split()
exec_tokens(tokens, registry, fk) ==
    IF tokens = <<>>
    THEN [out |-> Raise("IndexError", "exec_function_str", <<>>),
          calls |-> <<>>, resolutions |-> <<>>]
    ELSE exec_resolved(tokens, get_function(tokens[1], registry), fk)

exec_function_str(function_str, registry, fk) ==
    exec_tokens(Split(function_str), registry, fk)

\* Field values: a str, a list, or a value of another type
Str(s) == [type |-> "str", str |-> s, list |-> <<>>]
List(l) == [type |-> "list", str |-> <<>>, list |-> l]
Other(t) == [type |-> t, str |-> <<>>, list |-> <<>>]

\* Mutant of get_random_value: no branch for lists
get_random_value_no_list(field_value, pick, registry, fk) ==
    IF field_value.type = "str"
    THEN [route |-> "exec_function_str"] @@
         exec_function_str(field_value.str, registry, fk)
    ELSE [route |-> "raise", calls |-> <<>>, resolutions |-> <<>>,
          out |-> Raise("ValueError", "get_random_value", <<>>)]

\* Mutant of get_random_value: whatever is not a list is run as a function
\* string
get_random_value_no_type_check(field_value, pick, registry, fk) ==
    IF field_value.type = "list"
    THEN [route |-> "random.choice", calls |-> <<>>, resolutions |-> <<>>,
          out |-> IF field_value.list = <<>>
                  THEN Raise("IndexError", "random.choice", <<>>)
                  ELSE Return(<<"literal", field_value.list[pick]>>)]
    ELSE [route |-> "exec_function_str"] @@
         exec_function_str(field_value.str, registry, fk)

\* get_random_value(field_value); `pick` is the index random.choice draws
get_random_value(field_value, pick, registry, fk) ==
    IF field_value.type = "str"
    THEN [route |-> "exec_function_str"] @@
         exec_function_str(field_value.str, registry, fk)
    ELSE IF field_value.type = "list"
    THEN [route |-> "random.choice", calls |-> <<>>, resolutions |-> <<>>,
          out |-> IF field_value.list = <<>>
                  THEN Raise("IndexError", "random.choice", <<>>)
                  ELSE Return(<<"literal", field_value.list[pick]>>)]
    ELSE [route |-> "raise", calls |-> <<>>, resolutions |-> <<>>,
          out |-> Raise("ValueError", "get_random_value", <<>>)]

\* The indexes random.choice can draw for a field value
Picks(field_value) ==
    IF field_value.type = "list" /\ field_value.list # <<>>
    THEN 1..Len(field_value.list)
    ELSE {1}

----------------------------------------------------------------------------
(* timestamp, get_template_log *)

\* Replacement fields of a template: the positional one, {0}, that takes
\* the timestamp, and named ones
Positional == <<"positional", "0">>
Named(k) == <<"named", k>>

\* timestamp(): it reads the global `fake`
timestamp(fk) ==
    IF fk = Undefined
    THEN Raise("NameError", "timestamp", n_fake)
    ELSE Return(<<"epoch", fk>>)

\* The dict comprehension of get_template_log over fields[i..]: the values
\* resolved so far, or the first exception
RECURSIVE resolve_fields(_, _, _, _, _, _)
resolved_field(fields, i, picks, registry, fk, acc, r) ==
    IF r.out.kind = "raise"
    THEN [out |-> r.out,
          values |-> acc.values,
          calls |-> acc.calls \o r.calls,
          resolutions |-> acc.resolutions \o r.resolutions]
    ELSE resolve_fields(fields, i + 1, picks, registry, fk,
             [out |-> r.out,
              values |-> DictSet(acc.values, fields[i][1], r.out.val),
              calls |-> acc.calls \o r.calls,
              resolutions |-> acc.resolutions \o r.resolutions])

resolve_fields(fields, i, picks, registry, fk, acc) ==
    IF i > Len(fields)
    THEN acc
    ELSE resolved_field(fields, i, picks, registry, fk, acc,
             get_random_value(fields[i][2], picks[i], registry, fk))

\* Mutant of format: a name that values does not have is left empty
RECURSIVE format_lenient(_, _, _, _)
format_lenient(template, i, values, done) ==
    IF i > Len(template)
    THEN Return(<<"log", done>>)
    ELSE IF template[i] = Positional
    THEN format_lenient(template, i + 1, values,
                        Append(done, <<template[i], <<"now">> >>))
    ELSE IF template[i][2] \in DictKeys(values)
    THEN format_lenient(template, i + 1, values,
             Append(done, <<template[i],
                            values[DictGet(values, template[i][2])][2]>>))
    ELSE format_lenient(template, i + 1, values,
                        Append(done, <<template[i], <<"missing">> >>))

\* template.format(now, **values) over template[i..]: the replaced
\* fields so far, or KeyError for a name that values does not have
RECURSIVE format(_, _, _, _)
format(template, i, values, done) ==
    IF i > Len(template)
    THEN Return(<<"log", done>>)
    ELSE LET slot == template[i] IN
         IF slot = Positional
         THEN format(template, i + 1, values, Append(done, <<slot, <<"now">> >>))
         ELSE IF slot[2] \in DictKeys(values)
         THEN format(template, i + 1, values,
                     Append(done, <<slot, values[DictGet(values, slot[2])][2]>>))
         ELSE Raise("KeyError", "format", slot[2])

\* get_template_log(template, fields)
\* ... after the dict comprehension gave r
format_values(template, r) ==
    IF r.out.kind = "raise"
    THEN r
    ELSE [r EXCEPT !.out = format(template, 1, r.values, <<>>)]

get_template_log(template, fields, picks, registry, fk) ==
    format_values(template,
        resolve_fields(fields, 1, picks, registry, fk,
            [out |-> Return(None), values |-> <<>>,
             calls |-> <<>>, resolutions |-> <<>>]))

----------------------------------------------------------------------------
(* Inputs *)

n_rand_ == <<"r", "a", "n", "d", "_">>

\* Function tokens: defined in the core namespace (timestamp also in a
\* provider), defined in providers only, defined nowhere, exactly the
\* prefix, shorter than the prefix, and tokens without the prefix whose
\* tail after five characters is or is not a defined name.
Tokens ==
    {func_prefix \o n_timestamp, func_prefix \o n_load_config,
     func_prefix \o n_log, func_prefix \o n_randmac, func_prefix \o n_randint,
     func_prefix \o n_nope, func_prefix, <<"f", "u", "n", "c">>,
     n_rand_ \o n_randmac, n_rand_ \o n_timestamp, n_randmac}

ArgTokens == {<<"1">>, <<"1", "0">>}

\* Function strings: a token followed by arguments, single-spaced, and
\* strings with other spacing or no token at all
FunctionStrs ==
    {Join(<<t>>) : t \in Tokens} \cup
    {Join(<<t>> \o a) :
        t \in {func_prefix \o n_timestamp, func_prefix \o n_randint},
        a \in SeqsUpTo(ArgTokens, MaxArgs)} \cup
    {<<>>, <<" ", " ">>,
     <<" ">> \o func_prefix \o n_randint \o <<" ", "\t", "1", " ", " ", "1", "0", " ">>}

LiteralLists ==
    {<<>>, <<"alice">>, <<"alice", "bob">>, <<"bob", "alice", "bob">>}

\* A template is the sequence of its replacement fields: the positional
\* one for the timestamp, or none, then named ones
Templates ==
    {pre \o named : pre \in {<<>>, <<Positional>>},
                    named \in SeqsUpTo({Named("user"), Named("host")}, MaxNamed)}

\* Field mappings, in the order of the configuration's mapping
FieldMappings ==
    {<<>>,
     << <<"user", List(<<"alice", "bob">>)>> >>,
     << <<"host", Str(func_prefix \o n_randmac)>> >>,
     << <<"user", List(<<"bob">>)>>,
        <<"ip", Str(Join(<<func_prefix \o n_randint, <<"1">>, <<"1", "0">>>>))>> >>,
     << <<"host", Str(func_prefix \o n_nope)>>, <<"user", List(<<"bob">>)>> >>}

FieldValues ==
    {Str(s) : s \in FunctionStrs} \cup
    {List(l) : l \in LiteralLists} \cup
    {Other("int"), Other("dict"), Other("NoneType")}

----------------------------------------------------------------------------
(* Operations *)

NoOp == [name |-> "import", input |-> None]

\* The state after `import rlog_generator.utils`: `fake` is not assigned at
\* module level, and line 66 has built the registry from some listing order.
Init ==
    \E d \in ProviderDirs : \E listing \in Perms(d) :
        LET r == load_provider_modules(listing, InitialSysModules,
                                       [f \in d |-> 0])
        IN /\ fake = Undefined
           /\ last_good = [some |-> FALSE, file |-> <<>>]
           /\ providers_dir = d
           /\ sys_modules = r.mods
           /\ sys_path = 1
           /\ executed = r.execd
           /\ provider_functions = r.provider_modules
           /\ op = NoOp
           /\ outcome = Return(None)
           /\ calls = <<>>
           /\ resolutions = <<>>
           /\ route = "none"

\* Ghost bookkeeping, from what the caller observes: load_config returned a
\* configuration (not None, no exception) and the file's mapping has a
\* locale key whose value is not empty.
LoadedWithLocale(yaml_file, out) ==
    /\ out.kind = "return"
    /\ out.val # None
    /\ "locale" \in DOMAIN yaml_file.map
    /\ yaml_file.map["locale"] # ""

LoadConfig ==
    /\ \E yaml_file \in YamlFiles :
        \E r \in {load_config(yaml_file, fake)} :
        /\ fake' = r.fake
        /\ last_good' = IF LoadedWithLocale(yaml_file, r.out)
                        THEN [some |-> TRUE, file |-> yaml_file]
                        ELSE last_good
        /\ op' = [name |-> "load_config", input |-> yaml_file]
        /\ outcome' = r.out
    /\ calls' = <<>>
    /\ resolutions' = <<>>
    /\ route' = "none"
    /\ UNCHANGED <<providers_dir, sys_modules, sys_path, executed, provider_functions>>

\* A further call of load_provider_modules(); its result is returned to the
\* caller, the global provider_functions is not reassigned.
LoadProviderModules ==
    /\ sys_path < 1 + MaxReloads
    /\ \E listing \in Perms(providers_dir) :
        \E r \in {load_provider_modules(listing, sys_modules, executed)} :
        /\ sys_modules' = r.mods
        /\ executed' = r.execd
        /\ op' = [name |-> "load_provider_modules", input |-> listing]
        /\ outcome' = Return(r.provider_modules)
    /\ sys_path' = sys_path + 1
    /\ calls' = <<>>
    /\ resolutions' = <<>>
    /\ route' = "none"
    /\ UNCHANGED <<fake, last_good, providers_dir, provider_functions>>

GetFunction ==
    /\ \E function_str \in Tokens :
        /\ op' = [name |-> "get_function", input |-> function_str]
        /\ outcome' = get_function(function_str, provider_functions)
        /\ resolutions' = <<function_str>>
    /\ calls' = <<>>
    /\ route' = "none"
    /\ UNCHANGED <<fake, last_good, providers_dir, sys_modules, sys_path,
                   executed, provider_functions>>

GetRandomValue ==
    /\ \E field_value \in FieldValues : \E pick \in Picks(field_value) :
        \E r \in {get_random_value(field_value, pick, provider_functions, fake)} :
        /\ op' = [name |-> "get_random_value", input |-> field_value]
        /\ outcome' = r.out
        /\ calls' = r.calls
        /\ resolutions' = r.resolutions
        /\ route' = r.route
    /\ UNCHANGED <<fake, last_good, providers_dir, sys_modules, sys_path,
                   executed, provider_functions>>

GetTemplateLog ==
    /\ \E template \in Templates : \E fields \in FieldMappings :
       \E picks \in {p \in [1..Len(fields) -> 1..3] :
                       \A i \in 1..Len(fields) : p[i] \in Picks(fields[i][2])} :
        \E r \in {get_template_log(template, fields, picks, provider_functions, fake)} :
        /\ op' = [name |-> "get_template_log",
                  input |-> [template |-> template, fields |-> fields]]
        /\ outcome' = r.out
        /\ calls' = r.calls
        /\ resolutions' = r.resolutions
    /\ route' = "none"
    /\ UNCHANGED <<fake, last_good, providers_dir, sys_modules, sys_path,
                   executed, provider_functions>>

Timestamp ==
    /\ op' = [name |-> "timestamp", input |-> None]
    /\ outcome' = timestamp(fake)
    /\ calls' = <<>>
    /\ resolutions' = <<>>
    /\ route' = "none"
    /\ UNCHANGED <<fake, last_good, providers_dir, sys_modules, sys_path,
                   executed, provider_functions>>

Next ==
    \/ LoadConfig
    \/ LoadProviderModules
    \/ GetFunction
    \/ GetRandomValue
    \/ GetTemplateLog
    \/ Timestamp

Spec == Init /\ [][Next]_vars

----------------------------------------------------------------------------
(* Vocabulary of the properties *)

Stripped(token) == DropPrefix(token, Len(func_prefix))

\* Positions of the registry whose module defines the name
Definers(name) ==
    {i \in 1..Len(provider_functions) : hasattr(provider_functions[i][2], name)}

NowhereDefined(name) == name \notin CoreNamespace /\ Definers(name) = {}

\* The module the resolution order designates for a name defined somewhere
ExpectedModule(name) ==
    IF name \in CoreNamespace THEN core
    ELSE provider_functions[CHOOSE i \in Definers(name) :
                                \A j \in Definers(name) : i <= j][2]

IsNotFound(o, name) ==
    /\ o.kind = "raise"
    /\ o.err = "ValueError"
    /\ o.by = "get_function"
    /\ o.msg = name

IsProviderFile(f) == EndsWith(f, dot_py) /\ f # File(n_init)

\* The tokens of the function string last given to get_random_value
InputTokens == Split(op.input.str)

----------------------------------------------------------------------------
(* Properties *)

\* C1: for a function string whose first token is func_X with X in the core
\* namespace, get_random_value invokes X exactly once with the generator
\* followed by the remaining tokens, as strings in their order, and returns
\* what X returns.
C1_CoreFunctionInvoked ==
    (/\ op.name = "get_random_value"
     /\ op.input.type = "str"
     /\ InputTokens # <<>>
     /\ StartsWith(Head(InputTokens), func_prefix)
     /\ Stripped(Head(InputTokens)) \in CoreNamespace)
    => /\ Len(calls) = 1
       /\ fake # Undefined
       /\ calls[1].module = core
       /\ calls[1].name = Stripped(Head(InputTokens))
       /\ calls[1].gen = fake
       /\ calls[1].args = Tail(InputTokens)
       /\ outcome = Underlying(core, Stripped(Head(InputTokens)), fake,
                               Tail(InputTokens)).out

\* C2: for a non-empty list, get_random_value returns one of its elements
\* and neither resolves nor invokes any function.
C2_ChoiceIsMember ==
    (/\ op.name = "get_random_value"
     /\ op.input.type = "list"
     /\ op.input.list # <<>>)
    => /\ outcome.kind = "return"
       /\ outcome.val[1] = "literal"
       /\ \E i \in 1..Len(op.input.list) : outcome.val[2] = op.input.list[i]
       /\ resolutions = <<>>
       /\ calls = <<>>

C2_Witness ==
    /\ op.name = "get_random_value"
    /\ op.input.type = "list"
    /\ Len(op.input.list) = 3
    /\ outcome.kind = "return"
    /\ outcome.val[2] = "alice"

\* C3: get_function returns a wrapper of the core definition when the core
\* namespace defines the stripped name, whatever the provider modules
\* define, and otherwise a wrapper of the first provider module in registry
\* order that defines it; every call made goes to that definition.
C3_ResolutionOrder ==
    /\ (op.name = "get_function" /\ ~NowhereDefined(Stripped(op.input)))
       => /\ outcome.kind = "return"
          /\ outcome.val = Wrapper(ExpectedModule(Stripped(op.input)),
                                   Stripped(op.input))
    /\ \A i \in 1..Len(calls) :
          calls[i].module = ExpectedModule(calls[i].name)

C3_Witness ==
    /\ op.name = "get_function"
    /\ Stripped(op.input) \in CoreNamespace
    /\ Definers(Stripped(op.input)) # {}
    /\ outcome.kind = "return"
    /\ outcome.val[2] = core

\* C4 as stated: get_function fails with the not-found error exactly when
\* the stripped name is defined nowhere, and the error names the token as
\* it was passed in.
C4_NamesOriginalToken ==
    op.name = "get_function"
    => /\ (outcome.kind = "raise") <=> NowhereDefined(Stripped(op.input))
       /\ outcome.kind = "raise" => IsNotFound(outcome, op.input)

\* C4 amended: get_function fails with the not-found error exactly when the
\* stripped name is defined nowhere, the error names the stripped name, and
\* get_random_value and get_template_log let that error through unchanged.
C4_NotFound ==
    /\ op.name = "get_function"
       => /\ (outcome.kind = "raise") <=> NowhereDefined(Stripped(op.input))
          /\ outcome.kind = "raise" => IsNotFound(outcome, Stripped(op.input))
    /\ op.name \in {"get_random_value", "get_template_log"}
       => \A i \in 1..Len(resolutions) :
             NowhereDefined(Stripped(resolutions[i]))
             <=> (i = Len(resolutions)
                  /\ IsNotFound(outcome, Stripped(resolutions[i])))

C4_Witness ==
    /\ op.name = "get_template_log"
    /\ resolutions # <<>>
    /\ IsNotFound(outcome, n_nope)

\* C5: when every field resolves, get_template_log fails with the
\* formatting error exactly when the template has a named field that is
\* no key of fields; keys the template does not use raise nothing and
\* do not show in the result.
C5_MissingPlaceholder ==
    (/\ op.name = "get_template_log"
     /\ \A i \in 1..Len(op.input.fields) :
           \A p \in Picks(op.input.fields[i][2]) :
              get_random_value(op.input.fields[i][2], p,
                               provider_functions, fake).out.kind = "return")
    => LET template == op.input.template
           keys == DictKeys(op.input.fields)
           missing == {i \in 1..Len(template) :
                          template[i] # Positional /\ template[i][2] \notin keys}
       IN /\ (missing # {}) <=> (outcome.kind = "raise")
          /\ outcome.kind = "raise"
             => /\ outcome.err = "KeyError"
                /\ outcome.by = "format"
                /\ \E i \in missing : outcome.msg = template[i][2]
          /\ outcome.kind = "return"
             => /\ Len(outcome.val[2]) = Len(template)
                /\ \A i \in 1..Len(template) :
                      outcome.val[2][i][1] = template[i]

C5_Witness ==
    /\ op.name = "get_template_log"
    /\ outcome.kind = "return"
    /\ \E i \in 1..Len(op.input.template) : op.input.template[i] = Named("user")
    /\ "ip" \in DictKeys(op.input.fields)

\* C6: the global generator is the one made from the last yaml file that
\* load_config returned a configuration for and whose locale is present and
\* not empty, it is undefined when there was none, and every underlying
\* call receives that generator.
C6_LastWriteWins ==
    /\ fake = IF last_good.some THEN last_good.file.map["locale"] ELSE Undefined
    /\ \A i \in 1..Len(calls) :
          last_good.some /\ calls[i].gen = last_good.file.map["locale"]

C6_Witness ==
    /\ op.name = "load_config"
    /\ op.input.exists /\ op.input.parses /\ ~op.input.null
    /\ "locale" \in DOMAIN op.input.map
    /\ op.input.map["locale"] = ""
    /\ fake = "it_IT"

\* C7: a further load_provider_modules returns the names of the registry
\* built at import mapped to the same modules, each name once, and every
\* provider file other than __init__.py has been executed exactly once.
C7_LoadedExactlyOnce ==
    op.name = "load_provider_modules"
    => /\ {outcome.val[i] : i \in 1..Len(outcome.val)}
          = {provider_functions[i] : i \in 1..Len(provider_functions)}
       /\ \A i, j \in 1..Len(outcome.val) :
             outcome.val[i][1] = outcome.val[j][1] => i = j
       /\ \A f \in providers_dir : IsProviderFile(f) => executed[f] = 1

\* C8 as stated: get_function returns no callable for a token that does
\* not start with func_.
C8_RejectsUnprefixed ==
    (op.name = "get_function" /\ ~StartsWith(op.input, func_prefix))
    => outcome.kind = "raise"

\* C8 amended: get_function does not look at the first five characters; a
\* token that does not start with func_ fails only when what follows its
\* first five characters is defined nowhere, and otherwise resolves to
\* that name by the resolution order.
C8_PrefixUnchecked ==
    (op.name = "get_function" /\ ~StartsWith(op.input, func_prefix))
    => /\ (outcome.kind = "raise") <=> NowhereDefined(Stripped(op.input))
       /\ outcome.kind = "return"
          => outcome.val = Wrapper(ExpectedModule(Stripped(op.input)),
                                   Stripped(op.input))

C8_Witness ==
    /\ op.name = "get_function"
    /\ op.input = n_rand_ \o n_randmac
    /\ outcome.kind = "return"
    /\ outcome.val[3] = n_randmac

\* C9: get_random_value runs a str as a function string, draws from a list,
\* and for any other type raises its own ValueError without resolving or
\* invoking anything.
C9_TwoVariants ==
    op.name = "get_random_value"
    => /\ op.input.type = "str"
          => /\ route = "exec_function_str"
             /\ InputTokens # <<>> => resolutions = <<Head(InputTokens)>>
       /\ op.input.type = "list"
          => route = "random.choice" /\ resolutions = <<>> /\ calls = <<>>
       /\ op.input.type \notin {"str", "list"}
          => /\ route = "raise"
             /\ outcome.kind = "raise"
             /\ outcome.err = "ValueError"
             /\ outcome.by = "get_random_value"
             /\ resolutions = <<>>
             /\ calls = <<>>

C9_Witness ==
    /\ op.name = "get_random_value"
    /\ op.input.type = "dict"
    /\ outcome.by = "get_random_value"

\* C10: whenever a function that reads the generator has run, the generator
\* was defined: no call ends in a NameError for `fake`.
C10_GeneratorDefined ==
    op.name \in {"get_random_value", "get_template_log", "timestamp"}
    => fake # Undefined /\ outcome.err # "NameError"

====
